---- MODULE Spec2Model ----
(***************************************************************************)
(* Model of src/markdown/ast.rs: the pulldown_cmark event stream, the Tag  *)
(* classifier, the construct parsers, the tree assembler Node::parse_nodes *)
(* with its inner push_node, over a heap of reference-counted nodes.       *)
(***************************************************************************)
EXTENDS Integers, Sequences, FiniteSets, TLC

\* ------------------------------------------------------------------ bounds
\* longest event stream handed to parse_nodes
MaxEvents == 3
\* heading levels 1..MaxLevel occur in the input (pulldown_cmark has H1..H6)
MaxLevel == 2
\* deepest open-heading stack handed to push_node in PushSpec
MaxOpen == 2

\* most nodes of a tree handed to the renderer in RenderSpec
MaxNodes == 4

\* longest string of a span handed to to_markdown in MarkdownSpec
MaxLen == 2

\* usize::MAX, the level a non-heading node pops against (unwrap_or); it is
\* above every HeadingLevel, the model keeps it above every modelled level.
usize_MAX == 2147483647

\* a String is a sequence of characters
Strings == {<<"a">>, <<"b">>}

\* ------------------------------------------------------------------ events
\* pulldown_cmark::Event.  tag/lvl are meaningful for Start and End, txt for
\* Text.  "List" stands for every Tag/TagEnd the classifier has no arm for.
Ev(k, tag, lvl, txt) == [k |-> k, tag |-> tag, lvl |-> lvl, txt |-> txt]

EvStart(tag, lvl) == Ev("Start", tag, lvl, <<>>)

EvEnd(tag, lvl) == Ev("End", tag, lvl, <<>>)

EvText(txt) == Ev("Text", "", 0, txt)

EvSoftBreak == Ev("SoftBreak", "", 0, <<>>)

EvHardBreak == Ev("HardBreak", "", 0, <<>>)

NoEvent == Ev("", "", 0, <<>>)

PlainTags == {"Emphasis", "Strong", "Strikethrough", "Paragraph", "List"}

Markers ==
    {[tag |-> t, lvl |-> 0] : t \in PlainTags}
        \cup {[tag |-> "Heading", lvl |-> l] : l \in 1..MaxLevel}

Events ==
    {EvStart(m.tag, m.lvl) : m \in Markers}
        \cup {EvEnd(m.tag, m.lvl) : m \in Markers}
        \cup {EvText(s) : s \in Strings}
        \cup {EvSoftBreak, EvHardBreak}

EventStreams == UNION {[1..n -> Events] : n \in 0..MaxEvents}

\* ------------------------------------------------------------------ Tag
\* enum Tag { Italic, Bold, Strikethrough, Paragraph, Heading(usize) }
Tag(t, lvl) == [t |-> t, lvl |-> lvl]

\* what a todo!() arm yields instead of a Tag: the thread panics
Todo == Tag("todo!", 0)

\* from_start with the catch-all arm taking the marker for a Paragraph
from_start_lenient(tag) ==
    CASE tag.tag = "Emphasis" -> Tag("Italic", 0)
      [] tag.tag = "Strong" -> Tag("Bold", 0)
      [] tag.tag = "Strikethrough" -> Tag("Strikethrough", 0)
      [] tag.tag = "Heading" -> Tag("Heading", tag.lvl)
      [] OTHER -> Tag("Paragraph", 0)

from_start(tag) ==
    CASE tag.tag = "Emphasis" -> Tag("Italic", 0)
      [] tag.tag = "Strong" -> Tag("Bold", 0)
      [] tag.tag = "Strikethrough" -> Tag("Strikethrough", 0)
      [] tag.tag = "Heading" -> Tag("Heading", tag.lvl)
      [] tag.tag = "Paragraph" -> Tag("Paragraph", 0)
      [] OTHER -> Todo

from_end(tag_end) ==
    CASE tag_end.tag = "Emphasis" -> Tag("Italic", 0)
      [] tag_end.tag = "Strong" -> Tag("Bold", 0)
      [] tag_end.tag = "Strikethrough" -> Tag("Strikethrough", 0)
      [] OTHER -> Todo

\* ------------------------------------------------------------------ outcomes
\* Ok, the &'static str of each Err, and the panic of each todo!()
Ok == "Ok"

ErrNotAllText == "Not all events are text events"

ErrNotTextEvent == "Not a text event"

ErrNonTextNode == "Non text node was found"

ErrNotHeading == "Not headinh tag"

ErrGetMut == "Cannot get mut from ref counted"

PanicFromStart == "panic: todo!() in Tag::from_start"

PanicFromEnd == "panic: todo!() in Tag::from_end"

PanicPushNode == "panic: todo!() in push_node"

PanicEvent == "panic: todo!() in parse_nodes"

Errs == {ErrNotAllText, ErrNotTextEvent, ErrNonTextNode, ErrNotHeading, ErrGetMut}

Panics == {PanicFromStart, PanicFromEnd, PanicPushNode, PanicEvent}

\* ------------------------------------------------------------------ iterators
\* An iterator over events: the underlying Vec/stream evs read at pos, under
\* a stack flt of take_while adaptors (flt[1] innermost); flag is TakeWhile's
\* own flag, set once its predicate has failed.
Iter(evs) == [evs |-> evs, pos |-> 1, flt |-> <<>>]

\* the closure every take_while is given: panics through from_end, else
\* true for everything but an End event classified as tag
take_while(it, tag) ==
    [it EXCEPT !.flt = Append(@, [tag |-> tag, flag |-> FALSE])]

\* the adaptor goes out of scope; the underlying iterator keeps its position
drop_adaptor(it) == [it EXCEPT !.flt = SubSeq(@, 1, Len(@) - 1)]

\* what a take_while adaptor for tag makes of the item r its inner iterator
\* gave: its closure calls from_end on an End event (and may panic there)
take_while_item(r, k) ==
    IF r.res # "Some" \/ r.ev.k # "End" THEN r
    ELSE IF from_end(r.ev) = Todo
         THEN [res |-> "Panic", ev |-> r.ev, it |-> r.it]
         ELSE IF from_end(r.ev) # r.it.flt[k].tag THEN r
              ELSE [res |-> "None", ev |-> NoEvent,
                    it |-> [r.it EXCEPT !.flt[k].flag = TRUE]]

RECURSIVE pull(_, _)
\* next() of adaptor k of it (k = 0: the underlying iterator)
pull(it, k) ==
    IF k = 0
    THEN IF it.pos > Len(it.evs)
         THEN [res |-> "None", ev |-> NoEvent, it |-> it]
         ELSE [res |-> "Some", ev |-> it.evs[it.pos],
               it |-> [it EXCEPT !.pos = @ + 1]]
    ELSE IF it.flt[k].flag
         THEN [res |-> "None", ev |-> NoEvent, it |-> it]
         ELSE take_while_item(pull(it, k - 1), k)

next(it) == pull(it, Len(it.flt))

RECURSIVE collect_from(_, _)
\* Iterator::collect::<Vec<_>>(): r is the item next() gave, acc the Vec so far
collect_item(r, acc) ==
    CASE r.res = "Some" -> collect_from(r.it, Append(acc, r.ev))
      [] r.res = "None" -> [out |-> Ok, vec |-> acc, it |-> r.it]
      [] OTHER -> [out |-> PanicFromEnd, vec |-> <<>>, it |-> r.it]

collect_from(it, acc) == collect_item(next(it), acc)

collect(it) == collect_from(it, <<>>)

\* ------------------------------------------------------------------ nodes
\* enum Text: a span of variant v over the string s (s is empty for breaks)
Span(v, s) == [v |-> v, s |-> s]

NoSpan == Span("", <<>>)

\* struct Node { node_type, subnodes }; txt is NodeType::Text's payload,
\* level and content are NodeType::Heading's. subnodes holds Rc<Node>: heap
\* addresses.
Node(node_type, txt, level, content, subnodes) ==
    [node_type |-> node_type, txt |-> txt, level |-> level,
     content |-> content, subnodes |-> subnodes]

NodeText(span) == Node("Text", span, 0, <<>>, <<>>)

NodeParagraph(subnodes) == Node("Paragraph", NoSpan, 0, <<>>, subnodes)

NodeHeading(level, content) == Node("Heading", NoSpan, level, content, <<>>)

NoNode == Node("", NoSpan, 0, <<>>, <<>>)

\* The Rc heap: heap[a] is the Node allocated at address a by Rc::new.
\* Rc::strong_count of address rc, given the Vec<Rc<Node>> in scope: the
\* number of Rc values pointing at it.
Occurrences(rc, vec) == Cardinality({i \in DOMAIN vec : vec[i] = rc})

strong_count(rc, nodes, open_headings, heap) ==
    Occurrences(rc, nodes) + Occurrences(rc, open_headings)
        + Cardinality(UNION {{<<a, i>> : i \in {j \in DOMAIN heap[a].subnodes :
                                                  heap[a].subnodes[j] = rc}} :
                             a \in DOMAIN heap})

\* get_mut that hands out the reference whatever the count
get_mut_unchecked(rc, nodes, open_headings, heap) == TRUE

\* Rc::get_mut: Some only for the unique owner
get_mut_is_some(rc, nodes, open_headings, heap) ==
    strong_count(rc, nodes, open_headings, heap) = 1

\* ------------------------------------------------------------------ push_node
\* Option<usize>
Some(v) == [some |-> TRUE, v |-> v]

None == [some |-> FALSE, v |-> 0]

\* unwrap_or_default: None counts as level 0
unwrap_or_zero(opt, default) == IF opt.some THEN opt.v ELSE 0

unwrap_or(opt, default) == IF opt.some THEN opt.v ELSE default

level_of(node) ==
    IF node.node_type = "Heading" THEN Some(node.level) ELSE None

RECURSIVE pop_open_headings(_, _, _)

RECURSIVE pop_deeper_headings(_, _, _)
\* the while-let loop comparing with > : a heading of the same level stays
pop_deeper_headings(open_headings, heap, push_level) ==
    IF open_headings = <<>> THEN open_headings
    ELSE LET n == heap[open_headings[Len(open_headings)]] IN
         IF n.node_type = "Heading" /\ n.level > unwrap_or(push_level, usize_MAX)
         THEN pop_deeper_headings(SubSeq(open_headings, 1, Len(open_headings) - 1),
                                  heap, push_level)
         ELSE open_headings

\* the while-let loop: pop every top entry whose level is >= the pushed one
pop_open_headings(open_headings, heap, push_level) ==
    IF open_headings = <<>> THEN open_headings
    ELSE LET n == heap[open_headings[Len(open_headings)]] IN
         IF n.node_type = "Heading" /\ n.level >= unwrap_or(push_level, usize_MAX)
         THEN pop_open_headings(SubSeq(open_headings, 1, Len(open_headings) - 1),
                                heap, push_level)
         ELSE open_headings

PushResult(out, nodes, open_headings, heap) ==
    [out |-> out, nodes |-> nodes, open_headings |-> open_headings, heap |-> heap]

\* attach with a root inserted at the front of nodes instead of pushed
attach_front(rc_node, nodes, open_headings, heap) ==
    IF Len(open_headings) = 0
    THEN PushResult(Ok, <<rc_node>> \o nodes, open_headings, heap)
    ELSE LET top == open_headings[Len(open_headings)] IN
         IF get_mut_is_some(top, nodes, open_headings, heap)
         THEN PushResult(Ok, nodes, open_headings,
                         [heap EXCEPT ![top].subnodes = Append(@, rc_node)])
         ELSE PushResult(ErrGetMut, <<>>, <<>>, heap)

\* match open_headings.len(): push onto nodes, or onto the subnodes of the
\* top open heading through Rc::get_mut
attach(rc_node, nodes, open_headings, heap) ==
    IF Len(open_headings) = 0
    THEN PushResult(Ok, Append(nodes, rc_node), open_headings, heap)
    ELSE LET top == open_headings[Len(open_headings)] IN
         IF get_mut_is_some(top, nodes, open_headings, heap)
         THEN PushResult(Ok, nodes, open_headings,
                         [heap EXCEPT ![top].subnodes = Append(@, rc_node)])
         ELSE PushResult(ErrGetMut, <<>>, <<>>, heap)

\* if push_level.is_some(): todo!() on an empty stack, else push a clone of
\* the last subnode of the top open heading
reopen(push_level, nodes, open_headings, heap) ==
    IF ~push_level.some THEN PushResult(Ok, nodes, open_headings, heap)
    ELSE IF Len(open_headings) = 0
         THEN PushResult(PanicPushNode, <<>>, <<>>, heap)
         ELSE LET top == heap[open_headings[Len(open_headings)]] IN
              PushResult(Ok, nodes,
                         Append(open_headings, top.subnodes[Len(top.subnodes)]),
                         heap)

push_node(node, nodes, open_headings, heap) ==
    LET push_level == level_of(node)
        rc_node == Len(heap) + 1
        heap1 == Append(heap, node)
        open1 == pop_open_headings(open_headings, heap1, push_level)
        a == attach(rc_node, nodes, open1, heap1)
    IN  IF a.out # Ok THEN a
        ELSE reopen(push_level, a.nodes, a.open_headings, a.heap)

\* ------------------------------------------------------------------ parsers
RECURSIVE join(_)
\* Vec<String>::join("")
join(strs) == IF strs = <<>> THEN <<>> ELSE Head(strs) \o join(Tail(strs))

RECURSIVE texts_of(_)
\* filter_map keeping the string of every Event::Text
texts_of(evs) ==
    IF evs = <<>> THEN <<>>
    ELSE IF Head(evs).k = "Text" THEN <<Head(evs).txt>> \o texts_of(Tail(evs))
         ELSE texts_of(Tail(evs))

ParseResult(out, node, it, heap) ==
    [out |-> out, node |-> node, it |-> it, heap |-> heap]

NodesResult(out, nodes, it, heap) ==
    [out |-> out, nodes |-> nodes, it |-> it, heap |-> heap]

\* parse_text_event after its take_while(..).collect(): c is what was
\* collected, it the caller's iterator again
text_event_node(c, it, tag, heap) ==
    IF c.out # Ok THEN ParseResult(c.out, NoNode, it, heap)
    ELSE IF Len(c.vec) # Len(texts_of(c.vec))
         THEN ParseResult(ErrNotAllText, NoNode, it, heap)
         ELSE CASE tag.t = "Italic" ->
                     ParseResult(Ok, NodeText(Span("Italic", join(texts_of(c.vec)))),
                                 it, heap)
                [] tag.t = "Bold" ->
                     ParseResult(Ok, NodeText(Span("Bold", join(texts_of(c.vec)))),
                                 it, heap)
                [] tag.t = "Strikethrough" ->
                     ParseResult(Ok,
                                 NodeText(Span("Strikethrough", join(texts_of(c.vec)))),
                                 it, heap)
                [] OTHER -> ParseResult(ErrNotTextEvent, NoNode, it, heap)

collected_text_event(c, tag, heap) ==
    text_event_node(c, drop_adaptor(c.it), tag, heap)

parse_text_event(events, tag, heap) ==
    collected_text_event(collect(take_while(events, tag)), tag, heap)

\* the for loop over the parsed nodes: every one must be NodeType::Text
all_text(nodes, heap) ==
    \A i \in DOMAIN nodes : heap[nodes[i]].node_type = "Text"

RECURSIVE parse_nodes_loop(_, _, _, _)

\* Node::parse_nodes as one call: fresh nodes and open_headings
parse_nodes(events, heap) == parse_nodes_loop(events, <<>>, <<>>, heap)

\* parse_paragraph after parse_nodes(..)? gave r: the text-only check
paragraph_node(r, it) ==
    IF r.out # Ok THEN ParseResult(r.out, NoNode, it, r.heap)
    ELSE IF ~all_text(r.nodes, r.heap)
         THEN ParseResult(ErrNonTextNode, NoNode, it, r.heap)
         ELSE ParseResult(Ok, NodeParagraph(r.nodes), it, r.heap)

\* parse_paragraph after its take_while(..).collect() gave c
collected_paragraph(c, heap) ==
    IF c.out # Ok THEN ParseResult(c.out, NoNode, drop_adaptor(c.it), heap)
    ELSE paragraph_node(parse_nodes(Iter(c.vec), heap), drop_adaptor(c.it))

parse_paragraph(events, heap) ==
    collected_paragraph(collect(take_while(events, Tag("Paragraph", 0))), heap)

\* parse_heading after parse_nodes(..)? over the lazy take_while gave r
heading_node(r, it, tag) ==
    IF r.out # Ok THEN ParseResult(r.out, NoNode, it, r.heap)
    ELSE IF ~all_text(r.nodes, r.heap)
         THEN ParseResult(ErrNonTextNode, NoNode, it, r.heap)
    ELSE IF tag.t # "Heading"
         THEN ParseResult(ErrNotHeading, NoNode, it, r.heap)
         ELSE ParseResult(Ok,
                          NodeHeading(tag.lvl,
                                      [i \in DOMAIN r.nodes |-> r.heap[r.nodes[i]].txt]),
                          it, r.heap)

parsed_heading(r, tag) == heading_node(r, drop_adaptor(r.it), tag)

parse_heading(events, tag, heap) ==
    parsed_heading(parse_nodes(take_while(events, tag), heap), tag)

parse_tag(events, tag, heap) ==
    CASE tag.t \in {"Italic", "Bold", "Strikethrough"} ->
             parse_text_event(events, tag, heap)
      [] tag.t = "Paragraph" -> parse_paragraph(events, heap)
      [] OTHER -> parse_heading(events, tag, heap)

\* the match of the loop body: the node an event gives, events being the
\* iterator after the event was taken
dispatch(event, events, heap) ==
    CASE event.k = "Start" ->
             IF from_start(event) = Todo
             THEN ParseResult(PanicFromStart, NoNode, events, heap)
             ELSE parse_tag(events, from_start(event), heap)
      [] event.k = "Text" ->
             ParseResult(Ok, NodeText(Span("Plain", event.txt)), events, heap)
      [] OTHER -> ParseResult(PanicEvent, NoNode, events, heap)

\* (nodes, open_headings) = push_node(node, nodes, open_headings)? gave p
loop_pushed(p, it) ==
    IF p.out # Ok THEN NodesResult(p.out, <<>>, it, p.heap)
    ELSE parse_nodes_loop(it, p.nodes, p.open_headings, p.heap)

\* the loop body once the match gave d
loop_dispatched(d, nodes, open_headings) ==
    IF d.out # Ok THEN NodesResult(d.out, <<>>, d.it, d.heap)
    ELSE loop_pushed(push_node(d.node, nodes, open_headings, d.heap), d.it)

\* while let Some(event) = events.next(): e is what next() gave
loop_item(e, nodes, open_headings, heap) ==
    CASE e.res = "None" -> NodesResult(Ok, nodes, e.it, heap)
      [] e.res = "Panic" -> NodesResult(PanicFromEnd, <<>>, e.it, heap)
      [] OTHER -> loop_dispatched(dispatch(e.ev, e.it, heap), nodes, open_headings)

parse_nodes_loop(events, nodes, open_headings, heap) ==
    loop_item(next(events), nodes, open_headings, heap)

\* ------------------------------------------------------------------ state
\* The outermost call of Node::parse_nodes: events is its iterator, nodes and
\* open_headings its locals, heap the Rc allocations so far, ret what the
\* call has returned (out = "running" until it ends; nodes is the forest of
\* Ok(nodes), empty for an Err or a panic).  produced is a history of the
\* call: the addresses Rc::new gave the nodes handed to push_node, in order.
\* output is the String that format!("{}", node) builds through Display::fmt
\* (written says whether fmt has run, buf is the text); source is the event
\* stream of an earlier parse whose rendering is being parsed again.
VARIABLES events, nodes, open_headings, heap, ret, produced, output, source

vars == <<events, nodes, open_headings, heap, ret, produced, output, source>>

\* the output before fmt has run
Blank == [written |-> FALSE, buf |-> <<>>]

\* no earlier parse
NoSource == [some |-> FALSE, evs |-> <<>>]

Running == "running"

Ret(out, forest) == [out |-> out, nodes |-> forest]

Init ==
    /\ events \in {Iter(s) : s \in EventStreams}
    /\ nodes = <<>>
    /\ open_headings = <<>>
    /\ heap = <<>>
    /\ ret = Ret(Running, <<>>)
    /\ produced = <<>>
    /\ output = Blank
    /\ source = NoSource

\* the loop body handing back the forest built so far when a step fails
Dispatched_partial(d, p) ==
    /\ events' = d.it
    /\ UNCHANGED <<output, source>>
    /\ IF d.out # Ok
       THEN /\ ret' = Ret(d.out, nodes)
            /\ nodes' = nodes
            /\ open_headings' = open_headings
            /\ heap' = d.heap
            /\ produced' = produced
       ELSE /\ ret' = Ret(IF p.out = Ok THEN Running ELSE p.out,
                         IF p.out = Ok THEN <<>> ELSE nodes)
            /\ nodes' = p.nodes
            /\ open_headings' = p.open_headings
            /\ heap' = p.heap
            /\ produced' = Append(produced, Len(d.heap) + 1)

\* one turn of the while-let loop once the match gave d: push_node, then
\* the next turn; an Err or a panic ends the call and drops the locals
Dispatched(d, p) ==
    /\ events' = d.it
    /\ UNCHANGED <<output, source>>
    /\ IF d.out # Ok
       THEN /\ ret' = Ret(d.out, <<>>)
            /\ nodes' = <<>>
            /\ open_headings' = <<>>
            /\ heap' = d.heap
            /\ produced' = produced
       ELSE /\ ret' = Ret(IF p.out = Ok THEN Running ELSE p.out, <<>>)
            /\ nodes' = p.nodes
            /\ open_headings' = p.open_headings
            /\ heap' = p.heap
            /\ produced' = Append(produced, Len(d.heap) + 1)

Pushed(d) == Dispatched(d, push_node(d.node, nodes, open_headings, d.heap))

LoopBody(e) == Pushed(dispatch(e.ev, e.it, heap))

\* Event::Start(tag) => parse_tag(events, Tag::from_start(tag))?
StartEvent ==
    /\ ret.out = Running
    /\ next(events).res = "Some"
    /\ next(events).ev.k = "Start"
    /\ LoopBody(next(events))

\* Event::Text(txt) => a Plain text node
TextEvent ==
    /\ ret.out = Running
    /\ next(events).res = "Some"
    /\ next(events).ev.k = "Text"
    /\ LoopBody(next(events))

\* _ => todo!()
OtherEvent ==
    /\ ret.out = Running
    /\ next(events).res = "Some"
    /\ next(events).ev.k \notin {"Start", "Text"}
    /\ LoopBody(next(events))

\* events.next() is None: Ok(nodes)
Return ==
    /\ ret.out = Running
    /\ next(events).res = "None"
    /\ ret' = Ret(Ok, nodes)
    /\ UNCHANGED <<events, nodes, open_headings, heap, produced, output, source>>

Next == StartEvent \/ TextEvent \/ OtherEvent \/ Return

Spec == Init /\ [][Next]_vars

\* ------------------------------------------------------------------ push_node alone
\* push_node is a free fn taking its state by value: PushSpec applies it once
\* to every argument within the bounds.  The open stack holds headings
\* 1..n; held[i] says whether another Rc to heading i exists, in nodes for
\* i = 1 and in the subnodes of heading i - 1 otherwise.
PushLevels == UNION {[1..n -> 1..MaxLevel] : n \in 0..MaxOpen}

PushHeap(levels, held) ==
    [i \in DOMAIN levels |->
        Node("Heading", NoSpan, levels[i], <<>>,
             IF i < Len(levels) /\ held[i + 1] THEN <<i + 1>> ELSE <<>>)]

PushArgs ==
    {NodeText(Span(v, s)) : v \in {"Plain", "Italic", "Bold"}, s \in Strings}
        \cup {NodeParagraph(<<>>)}
        \cup {NodeHeading(l, <<>>) : l \in 1..MaxLevel}

PushInit ==
    /\ events = Iter(<<>>)
    /\ ret = Ret(Running, <<>>)
    /\ produced = <<>>
    /\ output = Blank
    /\ source = NoSource
    /\ \E levels \in PushLevels : \E held \in [DOMAIN levels -> BOOLEAN] :
          /\ heap = PushHeap(levels, held)
          /\ open_headings = [i \in DOMAIN levels |-> i]
          /\ nodes = IF levels # <<>> /\ held[1] THEN <<1>> ELSE <<>>

PushCall ==
    /\ ret.out = Running
    /\ \E node \in PushArgs :
          LET p == push_node(node, nodes, open_headings, heap) IN
          /\ ret' = Ret(p.out, <<>>)
          /\ nodes' = p.nodes
          /\ open_headings' = p.open_headings
          /\ heap' = p.heap
    /\ produced' = <<Len(heap) + 1>>
    /\ UNCHANGED <<events, output, source>>

PushNext == PushCall

PushSpec == PushInit /\ [][PushNext]_vars

\* ------------------------------------------------------------------ push_node in sequence
\* StackSpec calls push_node again and again, as the loop of parse_nodes
\* does, starting from an open stack of headings nested by level: each entry
\* above the bottom is held by the child list of the entry below, the bottom
\* entry is held by nodes or by the stack alone.
StackLevels ==
    {levels \in PushLevels : \A i \in DOMAIN levels : i > 1 => levels[i - 1] < levels[i]}

StackInit ==
    /\ events = Iter(<<>>)
    /\ ret = Ret(Running, <<>>)
    /\ produced = <<>>
    /\ output = Blank
    /\ source = NoSource
    /\ \E levels \in StackLevels : \E root \in BOOLEAN :
          /\ heap = PushHeap(levels, [i \in DOMAIN levels |-> i > 1 \/ root])
          /\ open_headings = [i \in DOMAIN levels |-> i]
          /\ nodes = IF levels # <<>> /\ root THEN <<1>> ELSE <<>>

PushStep ==
    /\ ret.out = Running
    /\ Len(produced) < MaxEvents
    /\ \E node \in PushArgs :
          LET p == push_node(node, nodes, open_headings, heap) IN
          /\ ret' = Ret(IF p.out = Ok THEN Running ELSE p.out, <<>>)
          /\ nodes' = p.nodes
          /\ open_headings' = p.open_headings
          /\ heap' = p.heap
    /\ produced' = Append(produced, Len(heap) + 1)
    /\ UNCHANGED <<events, output, source>>

StackNext == PushStep

StackSpec == StackInit /\ [][StackNext]_vars

\* ------------------------------------------------------------------ renderer
\* a String of n copies of the character c: "#".repeat(n), and the padding
\* that {:indent$} puts before the empty string
repeat(c, n) == [i \in 1..n |-> c]

\* Text::to_markdown with Italic wrapped in asterisks
to_markdown_star(txt) ==
    CASE txt.v = "Plain" -> txt.s
      [] txt.v = "Italic" -> <<"*">> \o txt.s \o <<"*">>
      [] txt.v = "Bold" -> <<"*", "*">> \o txt.s \o <<"*", "*">>
      [] txt.v = "Strikethrough" -> <<"~", "~">> \o txt.s \o <<"~", "~">>
      [] txt.v = "SoftBrake" -> <<"\n">>
      [] OTHER -> <<"\\", "\n">>

\* Text::to_markdown
to_markdown(txt) ==
    CASE txt.v = "Plain" -> txt.s
      [] txt.v = "Italic" -> <<"_">> \o txt.s \o <<"_">>
      [] txt.v = "Bold" -> <<"*", "*">> \o txt.s \o <<"*", "*">>
      [] txt.v = "Strikethrough" -> <<"~", "~">> \o txt.s \o <<"~", "~">>
      [] txt.v = "SoftBrake" -> <<"\n">>
      [] OTHER -> <<"\\", "\n">>

RECURSIVE content_markdown(_)
\* content.iter().map(|txt| txt.to_markdown()).collect::<Vec<_>>().join("")
content_markdown(content) ==
    IF content = <<>> THEN <<>>
    ELSE to_markdown(Head(content)) \o content_markdown(Tail(content))

NodeDocument(subnodes) == Node("Document", NoSpan, 0, <<>>, subnodes)

RECURSIVE write_indented(_, _, _)

RECURSIVE write_subnodes(_, _, _)
\* for node in &self.subnodes { node.write_indented(f, level)?; }
write_subnodes(subnodes, level, h) ==
    IF subnodes = <<>> THEN <<>>
    ELSE write_indented(h[Head(subnodes)], level, h)
             \o write_subnodes(Tail(subnodes), level, h)

\* Node::write_indented: what it writes to the Formatter (writing to a
\* String cannot fail, so the fmt::Result is always Ok; the two println!
\* go to stdout and are not part of the output)
write_indented(self, level, h) ==
    CASE self.node_type = "Document" -> write_subnodes(self.subnodes, level, h)
      [] self.node_type = "Text" ->
             repeat(" ", level * 2) \o to_markdown(self.txt)
      [] self.node_type = "Heading" ->
             repeat(" ", level * 2) \o repeat("#", self.level) \o <<" ">>
                 \o content_markdown(self.content) \o <<"\n">>
                 \o write_subnodes(self.subnodes, level + 1, h)
      [] OTHER -> write_subnodes(self.subnodes, level, h)

\* impl Display for Node
fmt(self, h) == write_indented(self, 0, h)

\* format!("{}", node) on a Document holding the forest, as the test
\* builds it
Display ==
    /\ ret.out = Ok
    /\ ~output.written
    /\ output' = [written |-> TRUE, buf |-> fmt(NodeDocument(ret.nodes), heap)]
    /\ UNCHANGED <<events, nodes, open_headings, heap, ret, produced, source>>

\* ------------------------------------------------------------------ renderer alone
\* RenderSpec renders every tree within the bounds: Node values as a caller
\* (the test) builds them from the struct, not only those the parser makes.
\* Address 1 is the root; parent gives the node each later address hangs
\* under, and a Text node has no subnodes.
RenderSpans ==
    {Span("Plain", <<"a">>), Span("Italic", <<"b">>), Span("SoftBrake", <<>>)}

Titles ==
    {<<>>, <<Span("Plain", <<"H", "e", "a", "d", "i", "n", "g">>)>>,
     <<Span("Bold", <<"a">>), Span("Plain", <<"b">>)>>}

RenderNodes ==
    {NodeText(sp) : sp \in RenderSpans}
        \cup {NodeParagraph(<<>>)}
        \cup {NodeHeading(l, t) : l \in 1..MaxLevel, t \in Titles}

Parents(n) == {p \in [2..n -> 1..n] : \A i \in 2..n : p[i] < i}

ChildrenOf(a, n, p) == SelectSeq([i \in 1..(n - 1) |-> i + 1], LAMBDA i : p[i] = a)

RenderHeap(n, kinds, p) ==
    [a \in 1..n |-> [kinds[a] EXCEPT !.subnodes = ChildrenOf(a, n, p)]]

\* no Text node is given subnodes
LeafText(n, kinds, p) == \A i \in 2..n : kinds[p[i]].node_type # "Text"

RenderInit ==
    /\ \E n \in 1..MaxNodes : \E kinds \in [1..n -> RenderNodes] :
          \E p \in Parents(n) :
             /\ LeafText(n, kinds, p)
             /\ heap = RenderHeap(n, kinds, p)
    /\ ret = Ret(Ok, <<1>>)
    /\ events = Iter(<<>>)
    /\ nodes = <<>>
    /\ open_headings = <<>>
    /\ produced = <<>>
    /\ output = Blank
    /\ source = NoSource

RenderNext == Display

RenderSpec == RenderInit /\ [][RenderNext]_vars

\* ------------------------------------------------------------------ to_markdown alone
\* MarkdownSpec renders one Text node per span: every variant of enum Text
\* over every string of up to MaxLen characters, the separators among them.
Chars == {"a", "_", "*", "~", "\n"}

SpanStrings == UNION {[1..n -> Chars] : n \in 0..MaxLen}

Spans ==
    {Span(v, x) : v \in {"Plain", "Italic", "Bold", "Strikethrough"}, x \in SpanStrings}
        \cup {Span("SoftBrake", <<>>), Span("HardBrake", <<>>)}

MarkdownInit ==
    /\ \E sp \in Spans : heap = <<NodeText(sp)>>
    /\ ret = Ret(Ok, <<1>>)
    /\ events = Iter(<<>>)
    /\ nodes = <<>>
    /\ open_headings = <<>>
    /\ produced = <<>>
    /\ output = Blank
    /\ source = NoSource

MarkdownNext == Display

MarkdownSpec == MarkdownInit /\ [][MarkdownNext]_vars

\* ------------------------------------------------------------------ tokenizer
\* The lexical tokenizer is an external component (pulldown_cmark); the
\* repository holds none of it.  It is modelled here from the event kinds of
\* the interface and the text forms the renderer writes: ATX heading lines,
\* paragraphs of consecutive lines, indented code, and the three inline
\* wrappers.
RECURSIVE SplitLines(_, _)
\* the lines of text; line is the line being read
SplitLines(text, line) ==
    IF text = <<>> THEN (IF line = <<>> THEN <<>> ELSE <<line>>)
    ELSE IF Head(text) = "\n" THEN <<line>> \o SplitLines(Tail(text), <<>>)
         ELSE SplitLines(Tail(text), Append(line, Head(text)))

RECURSIVE LeadingRun(_, _)
\* how many times the character c opens chars
LeadingRun(chars, c) ==
    IF chars # <<>> /\ Head(chars) = c THEN 1 + LeadingRun(Tail(chars), c) ELSE 0

Strip(chars) == SubSeq(chars, LeadingRun(chars, " ") + 1, Len(chars))

IsBlankLine(line) == Strip(line) = <<>>

\* up to three spaces, one to six pound signs, then a space or the end
IsHeadingLine(line) ==
    /\ LeadingRun(line, " ") <= 3
    /\ LeadingRun(Strip(line), "#") \in 1..6
    /\ \/ Len(Strip(line)) = LeadingRun(Strip(line), "#")
       \/ Strip(line)[LeadingRun(Strip(line), "#") + 1] = " "

HeadingTitle(line) ==
    Strip(SubSeq(Strip(line), LeadingRun(Strip(line), "#") + 1, Len(Strip(line))))

\* four or more spaces of indentation open a code block
IsCodeLine(line) == LeadingRun(line, " ") >= 4 /\ ~IsBlankLine(line)

\* the inline wrapper that opens chars: its marker and its delimiter
WrapperAt(chars) ==
    CASE chars # <<>> /\ Head(chars) = "_" -> [tag |-> "Emphasis", d |-> <<"_">>]
      [] Len(chars) >= 2 /\ SubSeq(chars, 1, 2) = <<"*", "*">> ->
             [tag |-> "Strong", d |-> <<"*", "*">>]
      [] Len(chars) >= 2 /\ SubSeq(chars, 1, 2) = <<"~", "~">> ->
             [tag |-> "Strikethrough", d |-> <<"~", "~">>]
      [] OTHER -> [tag |-> "", d |-> <<>>]

\* first index from which d occurs in chars, at or after from; 0 if none
FindFrom(chars, d, from) ==
    IF \E i \in from..(Len(chars) - Len(d) + 1) : SubSeq(chars, i, i + Len(d) - 1) = d
    THEN CHOOSE i \in from..(Len(chars) - Len(d) + 1) :
            /\ SubSeq(chars, i, i + Len(d) - 1) = d
            /\ \A j \in from..(i - 1) : SubSeq(chars, j, j + Len(d) - 1) # d
    ELSE 0

TextEvents(run) == IF run = <<>> THEN <<>> ELSE <<EvText(run)>>

RECURSIVE Inline(_, _)
\* the inline events of chars; run is the literal text being read
Inline(chars, run) ==
    IF chars = <<>> THEN TextEvents(run)
    ELSE IF WrapperAt(chars).tag # ""
            /\ FindFrom(chars, WrapperAt(chars).d, Len(WrapperAt(chars).d) + 1) # 0
         THEN TextEvents(run)
                  \o <<EvStart(WrapperAt(chars).tag, 0)>>
                  \o TextEvents(SubSeq(chars, Len(WrapperAt(chars).d) + 1,
                                       FindFrom(chars, WrapperAt(chars).d,
                                                Len(WrapperAt(chars).d) + 1) - 1))
                  \o <<EvEnd(WrapperAt(chars).tag, 0)>>
                  \o Inline(SubSeq(chars,
                                   FindFrom(chars, WrapperAt(chars).d,
                                            Len(WrapperAt(chars).d) + 1)
                                       + Len(WrapperAt(chars).d),
                                   Len(chars)),
                            <<>>)
         ELSE Inline(Tail(chars), Append(run, Head(chars)))

LastChar(chars) == chars[Len(chars)]

\* the paragraph goes on with the line after the first of lines
Continues(lines) ==
    /\ Len(lines) >= 2
    /\ ~IsBlankLine(lines[2])
    /\ ~IsHeadingLine(lines[2])

\* a paragraph line without its indentation, and without the backslash of
\* a hard break when the paragraph goes on
LineBody(lines) ==
    IF Continues(lines) /\ LastChar(Strip(Head(lines))) = "\\"
    THEN SubSeq(Strip(Head(lines)), 1, Len(Strip(Head(lines))) - 1)
    ELSE Strip(Head(lines))

\* End(Paragraph) when prev, the paragraph line before, is one
CloseParagraph(prev) == IF prev = <<>> THEN <<>> ELSE <<EvEnd("Paragraph", 0)>>

RECURSIVE Blocks(_, _)
\* the events of lines; prev is the preceding line of the paragraph being
\* read, empty outside a paragraph
Blocks(lines, prev) ==
    IF lines = <<>> THEN CloseParagraph(prev)
    ELSE CASE IsBlankLine(Head(lines)) ->
                  CloseParagraph(prev) \o Blocks(Tail(lines), <<>>)
           [] IsHeadingLine(Head(lines)) ->
                  CloseParagraph(prev)
                      \o <<EvStart("Heading", LeadingRun(Strip(Head(lines)), "#"))>>
                      \o Inline(HeadingTitle(Head(lines)), <<>>)
                      \o <<EvEnd("Heading", LeadingRun(Strip(Head(lines)), "#"))>>
                      \o Blocks(Tail(lines), <<>>)
           [] IsCodeLine(Head(lines)) /\ prev = <<>> ->
                  <<EvStart("List", 0), EvText(Head(lines)), EvEnd("List", 0)>>
                      \o Blocks(Tail(lines), <<>>)
           [] OTHER ->
                  (IF prev = <<>> THEN <<EvStart("Paragraph", 0)>>
                   ELSE IF LastChar(prev) = "\\" THEN <<EvHardBreak>>
                        ELSE <<EvSoftBreak>>)
                      \o Inline(LineBody(lines), <<>>)
                      \o Blocks(Tail(lines), Strip(Head(lines)))

\* pulldown_cmark::Parser::new(text) drained into a Vec of events
tokenize(text) == Blocks(SplitLines(text, <<>>), <<>>)

\* ------------------------------------------------------------------ round trip
\* The host parses a stream, renders the forest, tokenizes the text and
\* parses again; source keeps the stream of the first parse.
Reparse ==
    /\ ret.out = Ok
    /\ output.written
    /\ ~source.some
    /\ source' = [some |-> TRUE, evs |-> events.evs]
    /\ events' = Iter(tokenize(output.buf))
    /\ nodes' = <<>>
    /\ open_headings' = <<>>
    /\ ret' = Ret(Running, <<>>)
    /\ produced' = <<>>
    /\ UNCHANGED <<heap, output>>

RoundTripNext ==
    StartEvent \/ TextEvent \/ OtherEvent \/ Return \/ Display \/ Reparse

RoundTripSpec == Init /\ [][RoundTripNext]_vars

\* ------------------------------------------------------------------ properties
\* the event stream the outermost call was given
Input == events.evs

Range(seq) == {seq[i] : i \in DOMAIN seq}

Last(seq) == seq[Len(seq)]

\* the call has ended: Ok, an Err or a panic
Ended == ret.out # Running

\* index of the first event after evs[1] that is not literal text, 0 if none
TitleEnd(evs) ==
    IF \E j \in 2..Len(evs) : evs[j].k # "Text"
    THEN CHOOSE j \in 2..Len(evs) :
            evs[j].k # "Text" /\ \A i \in 2..(j - 1) : evs[i].k = "Text"
    ELSE 0

\* evs opens with one well-formed heading: Start(Heading(l)), literal text,
\* End(Heading(l))
OpensWithHeading(evs) ==
    /\ evs # <<>>
    /\ evs[1].k = "Start"
    /\ evs[1].tag = "Heading"
    /\ TitleEnd(evs) # 0
    /\ evs[TitleEnd(evs)] = EvEnd("Heading", evs[1].lvl)

RECURSIVE IsHeadings(_)
\* evs is a sequence of well-formed headings and nothing else
IsHeadings(evs) ==
    \/ evs = <<>>
    \/ /\ OpensWithHeading(evs)
       /\ IsHeadings(SubSeq(evs, TitleEnd(evs) + 1, Len(evs)))

RECURSIVE StartLevels(_)
\* the levels of the Start(Heading) events of evs, in order
StartLevels(evs) ==
    IF evs = <<>> THEN <<>>
    ELSE IF Head(evs).k = "Start" /\ Head(evs).tag = "Heading"
         THEN <<Head(evs).lvl>> \o StartLevels(Tail(evs))
         ELSE StartLevels(Tail(evs))

\* nesting by level: the nearest preceding heading of strictly smaller
\* level, 0 for a root
NestParent(ls, i) ==
    IF \E j \in 1..(i - 1) : ls[j] < ls[i]
    THEN CHOOSE j \in 1..(i - 1) :
            ls[j] < ls[i] /\ \A k \in (j + 1)..(i - 1) : ls[k] >= ls[i]
    ELSE 0

\* addresses of the Heading nodes of the heap h, and the i-th of them in
\* allocation order
HeadingAddrs(h) == {a \in DOMAIN h : h[a].node_type = "Heading"}

NthHeading(h, i) ==
    CHOOSE a \in HeadingAddrs(h) :
        Cardinality({b \in HeadingAddrs(h) : b <= a}) = i

\* the forest in (forest, h) holds one heading per level of ls, nested by
\* level, roots and children in input order
NestsByLevel(ls, forest, h) ==
    /\ Cardinality(HeadingAddrs(h)) = Len(ls)
    /\ forest = SelectSeq([i \in DOMAIN ls |-> NthHeading(h, i)],
                          LAMBDA a : a \in {NthHeading(h, i) :
                                            i \in {j \in DOMAIN ls : NestParent(ls, j) = 0}})
    /\ \A i \in DOMAIN ls :
          /\ h[NthHeading(h, i)].level = ls[i]
          /\ h[NthHeading(h, i)].subnodes =
                SelectSeq([k \in DOMAIN ls |-> NthHeading(h, k)],
                          LAMBDA a : a \in {NthHeading(h, k) :
                                            k \in {j \in DOMAIN ls : NestParent(ls, j) = i}})

\* C1: a stream of well-formed headings parses without error into the forest
\* that nests every heading under the nearest preceding heading of strictly
\* smaller level (roots where there is none).
C1_HeadingsNestByLevel ==
    (Ended /\ Input # <<>> /\ IsHeadings(Input)) =>
        /\ ret.out = Ok
        /\ NestsByLevel(StartLevels(Input), ret.nodes, heap)

\* C2: a Heading that push_node processed on an empty open stack became the
\* last root and the only open heading and the parse goes on; the todo!()
\* branch of push_node is never reached.
C2_HeadingOnEmptyStackOpens ==
    /\ ret.out # PanicPushNode
    /\ (/\ produced # <<>>
        /\ heap[Last(produced)].node_type = "Heading"
        /\ ret.out \in {Running, Ok}
        /\ Len(open_headings) <= 1) =>
          /\ open_headings = <<Last(produced)>>
          /\ nodes # <<>>
          /\ Last(nodes) = Last(produced)

RECURSIVE PlainSpans(_)
\* the Plain span of every literal-text event of evs, in order
PlainSpans(evs) ==
    IF evs = <<>> THEN <<>>
    ELSE IF Head(evs).k = "Text"
         THEN <<Span("Plain", Head(evs).txt)>> \o PlainSpans(Tail(evs))
         ELSE PlainSpans(Tail(evs))

\* C3: [Start(Heading(L)), literal text..., End(Heading)] ends normally with
\* a forest of exactly one root Heading of level L whose content is the Plain
\* spans of the text events in order and whose children are empty.
C3_SingleHeadingParses ==
    (Ended /\ OpensWithHeading(Input) /\ TitleEnd(Input) = Len(Input)) =>
        /\ ret.out = Ok
        /\ Len(ret.nodes) = 1
        /\ heap[ret.nodes[1]] = NodeHeading(Input[1].lvl, PlainSpans(Input))

\* the Node values at the addresses of vec
Values(vec, h) == [i \in DOMAIN vec |-> h[vec[i]]]

RECURSIVE PlainNodes(_)
\* the Plain text node of every event of a stream of literal-text events
PlainNodes(evs) ==
    IF evs = <<>> THEN <<>>
    ELSE <<NodeText(Span("Plain", Head(evs).txt))>> \o PlainNodes(Tail(evs))

\* C4: non-heading nodes produced while a heading is open (here: literal
\* text right after one well-formed heading) become the children of that
\* heading, in order, the heading stays the only root and nothing fails.
C4_ContentAttachesUnderOpenHeading ==
    (/\ Ended
     /\ OpensWithHeading(Input)
     /\ Len(Input) > TitleEnd(Input)
     /\ \A i \in (TitleEnd(Input) + 1)..Len(Input) : Input[i].k = "Text") =>
        /\ ret.out = Ok
        /\ Len(ret.nodes) = 1
        /\ heap[ret.nodes[1]].node_type = "Heading"
        /\ Values(heap[ret.nodes[1]].subnodes, heap) =
              PlainNodes(SubSeq(Input, TitleEnd(Input) + 1, Len(Input)))

RECURSIVE Descendants(_, _)
\* the addresses reachable from address a through subnodes
Descendants(h, a) ==
    Range(h[a].subnodes) \cup UNION {Descendants(h, b) : b \in Range(h[a].subnodes)}

\* produced[i] is a non-heading node produced before the first heading
BeforeFirstHeading(i) ==
    \A j \in 1..i : heap[produced[j]].node_type # "Heading"

InlineTags == {"Emphasis", "Strong", "Strikethrough"}

StyleOf(tag) ==
    CASE tag = "Emphasis" -> "Italic"
      [] tag = "Strong" -> "Bold"
      [] OTHER -> "Strikethrough"

\* evs opens with a well-formed inline construct: Start(t), literal text, End(t)
OpensWithInline(evs) ==
    /\ evs # <<>>
    /\ evs[1].k = "Start"
    /\ evs[1].tag \in InlineTags
    /\ TitleEnd(evs) # 0
    /\ evs[TitleEnd(evs)] = EvEnd(evs[1].tag, 0)

RECURSIVE IsInlineStream(_)
\* evs holds only literal text and well-formed inline constructs
IsInlineStream(evs) ==
    \/ evs = <<>>
    \/ Head(evs).k = "Text" /\ IsInlineStream(Tail(evs))
    \/ /\ OpensWithInline(evs)
       /\ IsInlineStream(SubSeq(evs, TitleEnd(evs) + 1, Len(evs)))

RECURSIVE InlineNodes(_)
\* the Text nodes a stream of literal text and inline constructs stands for
InlineNodes(evs) ==
    IF evs = <<>> THEN <<>>
    ELSE IF Head(evs).k = "Text"
         THEN <<NodeText(Span("Plain", Head(evs).txt))>> \o InlineNodes(Tail(evs))
         ELSE <<NodeText(Span(StyleOf(Head(evs).tag),
                              join(texts_of(SubSeq(evs, 2, TitleEnd(evs) - 1)))))>>
                  \o InlineNodes(SubSeq(evs, TitleEnd(evs) + 1, Len(evs)))

\* index of the first event of evs equal to e, 0 if none
FirstIndex(evs, e) ==
    IF \E j \in DOMAIN evs : evs[j] = e
    THEN CHOOSE j \in DOMAIN evs : evs[j] = e /\ \A i \in 1..(j - 1) : evs[i] # e
    ELSE 0

\* C6: for [Start(Paragraph), s..., End(Paragraph)] with s literal text and
\* well-formed inline constructs only, the first node produced is a
\* Paragraph whose children are the Text nodes of s in order, and the caller
\* resumes after End(Paragraph).
C6_ParagraphParses ==
    (/\ events.pos > 1
     /\ Input[1] = EvStart("Paragraph", 0)
     /\ FirstIndex(Input, EvEnd("Paragraph", 0)) # 0
     /\ IsInlineStream(SubSeq(Input, 2, FirstIndex(Input, EvEnd("Paragraph", 0)) - 1))) =>
        /\ produced # <<>>
        /\ heap[produced[1]].node_type = "Paragraph"
        /\ Values(heap[produced[1]].subnodes, heap) =
              InlineNodes(SubSeq(Input, 2, FirstIndex(Input, EvEnd("Paragraph", 0)) - 1))
        /\ events.pos > FirstIndex(Input, EvEnd("Paragraph", 0))
        /\ (Len(produced) = 1 /\ ret.out \in {Running, Ok}) =>
              events.pos = FirstIndex(Input, EvEnd("Paragraph", 0)) + 1

\* the event is the Start or the End of a Paragraph or of a Heading
IsBlockMarker(e, k) == e.k = k /\ e.tag \in {"Paragraph", "Heading"}

\* evs from index j on is literal text up to the end of evs or up to e
TextUntil(evs, j, e) ==
    \/ \A i \in j..Len(evs) : evs[i].k = "Text"
    \/ \E k \in j..Len(evs) : evs[k] = e /\ \A i \in j..(k - 1) : evs[i].k = "Text"

\* C7: when the sub-stream of a Paragraph or of a Heading title holds a
\* nested Paragraph or Heading terminated by its own End marker (and
\* otherwise literal text), the parse ends in "Non text node was found" and
\* returns no tree.
C7_NonTextNodeIsStructuralViolation ==
    (/\ Ended
     /\ Len(Input) >= 3
     /\ IsBlockMarker(Input[1], "Start")
     /\ IsBlockMarker(Input[2], "Start")
     /\ \E j \in 3..Len(Input) :
           /\ Input[j] = EvEnd(Input[2].tag, Input[2].lvl)
           /\ \A i \in 3..(j - 1) : Input[i].k = "Text"
           /\ TextUntil(Input, j + 1, EvEnd(Input[1].tag, Input[1].lvl))) =>
        /\ ret.out = ErrNonTextNode
        /\ ret.nodes = <<>>

\* C8: for an inline construct Start(t) ... End(t) over events of the
\* supported set: when every event before the first End(t) is literal text
\* the node produced is one span of t's style holding the texts concatenated
\* in order; when some event before it is not literal text (a break, a Start
\* or an End of another construct) the parse ends in "Not all events are
\* text events".
C8_InlineTextOrMalformed ==
    (/\ events.pos > 1
     /\ Input[1].k = "Start"
     /\ Input[1].tag \in InlineTags
     /\ FirstIndex(Input, EvEnd(Input[1].tag, 0)) # 0
     /\ \A i \in 2..FirstIndex(Input, EvEnd(Input[1].tag, 0)) : Input[i].tag # "List") =>
        IF \A i \in 2..(FirstIndex(Input, EvEnd(Input[1].tag, 0)) - 1) : Input[i].k = "Text"
        THEN /\ produced # <<>>
             /\ heap[produced[1]] =
                   NodeText(Span(StyleOf(Input[1].tag),
                                 join(texts_of(SubSeq(Input, 2,
                                     FirstIndex(Input, EvEnd(Input[1].tag, 0)) - 1)))))
        ELSE ret.out = ErrNotAllText

\* index of the first event of evs that is not literal text, 0 if none:
\* the literal text before it is pushed by the outermost loop, node by node
FirstNonText(evs) ==
    IF \E j \in DOMAIN evs : evs[j].k # "Text"
    THEN CHOOSE j \in DOMAIN evs :
            evs[j].k # "Text" /\ \A i \in 1..(j - 1) : evs[i].k = "Text"
    ELSE 0

\* the marker of event e is outside the supported set
Unsupported(e) == e.k \in {"Start", "End"} /\ e.tag = "List"

\* some End event after index j is one from_end has no arm for
HasUnclassifiedEnd(evs, j) ==
    \E i \in (j + 1)..Len(evs) : evs[i].k = "End" /\ evs[i].tag \notin InlineTags

\* the call ended in the panic of the classifier and returned nothing
UnsupportedConstruct(out) ==
    /\ ret.out = out
    /\ ret.nodes = <<>>
    /\ nodes = <<>>

\* C9: classifying a marker outside the supported set ends the whole parse
\* in the classifier's failure, with no tree: a Start the outermost loop
\* dispatches, an End that is the first event of a construct's sub-stream, a
\* Start that the nested parse of a Paragraph or a Heading title dispatches
\* first; and no parse that returns Ok has met an unsupported marker.
C9_UnsupportedMarkerFails ==
    /\ ret.out = Ok => \A i \in DOMAIN Input : ~Unsupported(Input[i])
    /\ (FirstNonText(Input) # 0 /\ events.pos > FirstNonText(Input)) =>
          LET f == FirstNonText(Input) IN
          /\ Input[f] = EvStart("List", 0) => UnsupportedConstruct(PanicFromStart)
          /\ (/\ Input[f].k = "Start"
              /\ Input[f].tag # "List"
              /\ Len(Input) > f
              /\ Input[f + 1] = EvEnd("List", 0)) => UnsupportedConstruct(PanicFromEnd)
          /\ (/\ Input[f].k = "Start"
              /\ Input[f].tag = "Heading"
              /\ Len(Input) > f
              /\ Input[f + 1] = EvStart("List", 0)) => UnsupportedConstruct(PanicFromStart)
          /\ (/\ Input[f] = EvStart("Paragraph", 0)
              /\ Len(Input) > f
              /\ Input[f + 1] = EvStart("List", 0)) =>
                 IF HasUnclassifiedEnd(Input, f)
                 THEN UnsupportedConstruct(PanicFromEnd)
                 ELSE UnsupportedConstruct(PanicFromStart)

\* C9 witness: the nested parse of a Heading title classified an unsupported
\* Start marker and the whole parse ended there
C9_Witness ==
    /\ Len(Input) >= 2
    /\ Input[1].k = "Start"
    /\ Input[1].tag = "Heading"
    /\ Input[2] = EvStart("List", 0)
    /\ UnsupportedConstruct(PanicFromStart)

\* one push_node call seen as a step: the node it was given is the one
\* Rc::new allocated, the stack it attaches to is what the popping left
PushedNode == heap'[Len(heap) + 1]

AfterPop == pop_open_headings(open_headings, heap, level_of(PushedNode))

C10_Step ==
    (ret.out = Running /\ ret'.out # Running /\ AfterPop # <<>>) =>
        IF strong_count(Last(AfterPop), nodes, AfterPop, heap) > 1
        THEN /\ ret'.out = ErrGetMut
             /\ heap'[Last(AfterPop)] = heap[Last(AfterPop)]
        ELSE /\ ret'.out = Ok
             /\ heap'[Last(AfterPop)].subnodes =
                   Append(heap[Last(AfterPop)].subnodes, Len(heap) + 1)

\* C10: when push_node has to append under the top open heading and another
\* Rc to that heading exists (strong count above one), nothing is attached,
\* the heading's child list stays as it was and the call fails with "Cannot
\* get mut from ref counted"; when the stack holds the only Rc the node
\* becomes the heading's last child and the call succeeds.
C10_AliasedHeadingRejectsAttach == [][C10_Step]_vars

\* C10 witness: a call that had to attach under a heading held by another
\* owner and failed
C10_Witness ==
    /\ ret.out = ErrGetMut
    /\ produced # <<>>
    /\ \E a \in HeadingAddrs(heap) : a # Last(produced) /\ a \in Range(nodes) \cup
          UNION {Range(heap[b].subnodes) : b \in DOMAIN heap}

\* ------------------------------------------------------------------ C11
\* what the loop body reports for the next event: the outcome of the match
\* (a construct parser, with the nested parse_nodes calls it makes), else the
\* outcome of push_node
Reported ==
    IF dispatch(next(events).ev, next(events).it, heap).out # Ok
    THEN dispatch(next(events).ev, next(events).it, heap).out
    ELSE push_node(dispatch(next(events).ev, next(events).it, heap).node,
                   nodes, open_headings,
                   dispatch(next(events).ev, next(events).it, heap).heap).out

\* the input opens a Paragraph whose sub-stream is the rest of the input (no
\* End event follows), so the nested parse_nodes call gets exactly that rest
NestedRest(evs) ==
    /\ evs # <<>>
    /\ evs[1] = EvStart("Paragraph", 0)
    /\ \A i \in 2..Len(evs) : evs[i].k # "End"

C11_Step ==
    /\ ret.out # Running => UNCHANGED vars
    /\ (ret.out = Running /\ ret'.out \notin {Running, Ok}) =>
          /\ ret'.out = Reported
          /\ ret'.nodes = <<>>
          /\ nodes' = <<>>
          /\ open_headings' = <<>>
          /\ events' = dispatch(next(events).ev, next(events).it, heap).it
    /\ (NestedRest(Input) /\ events.pos = 1
         /\ parse_nodes(Iter(Tail(Input)), <<>>).out # Ok) =>
          /\ ret'.out = parse_nodes(Iter(Tail(Input)), <<>>).out
          /\ ret'.nodes = <<>>

\* C11: a failure is terminal.  The step in which a construct parser, a
\* nested parse_nodes call or push_node reports an error ends the call with
\* that error as its outcome, hands back no forest (the roots built so far
\* are dropped), and no step follows it: no further event is consumed.
C11_FailureIsTerminal == [][C11_Step]_vars

\* C11 witness: the call ended in an Err after roots had been built, and
\* returned none of them
C11_Witness ==
    /\ ret.out \in Errs
    /\ produced # <<>>
    /\ ret.nodes = <<>>
    /\ nodes = <<>>

\* ------------------------------------------------------------------ C12
\* the forest of the call: Ok(nodes) once returned, the roots so far before
Forest == IF ret.out = Ok THEN ret.nodes ELSE nodes

RECURSIVE Preorder(_, _)
\* pre-order traversal of the trees rooted at the addresses of vec
Preorder(vec, h) ==
    IF vec = <<>> THEN <<>>
    ELSE <<Head(vec)>> \o Preorder(h[Head(vec)].subnodes, h) \o Preorder(Tail(vec), h)

\* a node and everything below it
Subtree(h, a) == {a} \cup Descendants(h, a)

\* Rc::new runs inside push_node, so within one list a node produced later
\* has a later address, and so has everything produced below it: siblings
\* are in production order when their subtrees lie in increasing addresses
SiblingsInOrder(vec, h) ==
    \A i, j \in DOMAIN vec :
        i < j => \A x \in Subtree(h, vec[i]) : \A y \in Subtree(h, vec[j]) : x < y

RECURSIVE SpanTexts(_)
\* the strings of a sequence of spans, concatenated
SpanTexts(spans) ==
    IF spans = <<>> THEN <<>> ELSE Head(spans).s \o SpanTexts(Tail(spans))

RECURSIVE NodeTexts(_, _)
\* the literal text met along a traversal: a Text node's string, a
\* Heading's title
NodeTexts(order, h) ==
    IF order = <<>> THEN <<>>
    ELSE (IF h[Head(order)].node_type = "Text" THEN h[Head(order)].txt.s
          ELSE SpanTexts(h[Head(order)].content))
             \o NodeTexts(Tail(order), h)

\* C12: document order is preserved.  While the call runs and in the forest
\* it returns: the roots list and every child list hold their nodes in the
\* order they were produced, the pre-order traversal meets every node the
\* outermost loop produced exactly once and in production order, and the
\* literal text met along the traversal of a returned forest is the literal
\* text of the event stream in input order.
C12_DocumentOrderPreserved ==
    ret.out \in {Running, Ok} =>
        /\ SiblingsInOrder(Forest, heap)
        /\ \A a \in DOMAIN heap : SiblingsInOrder(heap[a].subnodes, heap)
        /\ SelectSeq(Preorder(Forest, heap), LAMBDA a : a \in Range(produced)) = produced
        /\ Cardinality(Range(Preorder(Forest, heap))) = Len(Preorder(Forest, heap))
        /\ ret.out = Ok =>
              NodeTexts(Preorder(Forest, heap), heap) = join(texts_of(Input))

\* C12 witness: a returned forest of two roots, the second a Paragraph whose
\* child list holds a node
C12_Witness ==
    /\ ret.out = Ok
    /\ Len(ret.nodes) = 2
    /\ heap[ret.nodes[1]].txt.s # <<>>
    /\ heap[ret.nodes[2]].node_type = "Paragraph"
    /\ heap[ret.nodes[2]].subnodes # <<>>
    /\ heap[heap[ret.nodes[2]].subnodes[1]].txt.s # heap[ret.nodes[1]].txt.s

\* ------------------------------------------------------------------ C13, C14
\* the decorated form of a span: the text itself, or wrapped in single
\* underscores, double asterisks, double tildes; a newline; a backslash and
\* a newline
DecoratedForm(span) ==
    CASE span.v = "Plain" -> span.s
      [] span.v = "Italic" -> <<"_">> \o span.s \o <<"_">>
      [] span.v = "Bold" -> <<"*", "*">> \o span.s \o <<"*", "*">>
      [] span.v = "Strikethrough" -> <<"~", "~">> \o span.s \o <<"~", "~">>
      [] span.v = "SoftBrake" -> <<"\n">>
      [] OTHER -> <<"\\", "\n">>

RECURSIVE DecoratedAll(_)
DecoratedAll(spans) ==
    IF spans = <<>> THEN <<>>
    ELSE DecoratedForm(Head(spans)) \o DecoratedAll(Tail(spans))

\* a heading's title line: level pound signs, a space, the spans, a newline
TitleLine(node) ==
    [i \in 1..node.level |-> "#"] \o <<" ">> \o DecoratedAll(node.content) \o <<"\n">>

\* two spaces per level of depth
Indentation(d) == [i \in 1..(2 * d) |-> " "]

\* the spans of the Text nodes at the addresses of vec
SpansOf(vec, h) == [i \in DOMAIN vec |-> h[vec[i]].txt]

RECURSIVE Canonical(_, _, _)
\* the rendering of the nodes of vec at depth d: a title line is never
\* indented and is followed by the children at depth d + 1; a line of
\* non-heading content is indented once, at its start
Canonical(vec, d, h) ==
    IF vec = <<>> THEN <<>>
    ELSE (CASE h[Head(vec)].node_type = "Heading" ->
                   TitleLine(h[Head(vec)]) \o Canonical(h[Head(vec)].subnodes, d + 1, h)
            [] h[Head(vec)].node_type = "Text" ->
                   Indentation(d) \o DecoratedForm(h[Head(vec)].txt)
            [] OTHER ->
                   IF h[Head(vec)].subnodes = <<>> THEN <<>>
                   ELSE Indentation(d)
                            \o DecoratedAll(SpansOf(h[Head(vec)].subnodes, h)))
             \o Canonical(Tail(vec), d, h)

\* a is a Text node of one line
LineOfText(h, a) ==
    h[a].node_type = "Text" /\ h[a].txt.v \notin {"SoftBrake", "HardBrake"}

\* a is the only child of a Heading
OnlyChildOfHeading(h, a) ==
    \E b \in DOMAIN h : h[b].node_type = "Heading" /\ h[b].subnodes = <<a>>

\* the tree holds headings, nested to any depth, and besides them only
\* one-line Text nodes that are the single child of a heading
HeadingTree(h) ==
    /\ \E a \in DOMAIN h : h[a].node_type = "Heading"
    /\ \A a \in DOMAIN h :
          \/ h[a].node_type = "Heading"
          \/ LineOfText(h, a) /\ OnlyChildOfHeading(h, a)

\* C13: a Heading rendered at any depth writes its title line as level '#'
\* characters, one space, the decorated spans and a newline with no leading
\* indentation, then its children one level deeper; a Document holding one
\* childless level-1 heading titled "Heading" renders "# Heading\n".
C13_HeadingTitleNotIndented ==
    (output.written /\ HeadingTree(heap)) =>
        output.buf = Canonical(ret.nodes, 0, heap)

\* the tree holds non-heading content at depth 0 or 1: headings only as
\* roots, one-line Text nodes, Paragraphs of Text nodes, and under a heading
\* a single child
ContentTree(h, roots) ==
    /\ \E a \in DOMAIN h : h[a].node_type # "Heading"
    /\ \A a \in DOMAIN h :
          CASE h[a].node_type = "Heading" ->
                   a \in Range(roots) /\ Len(h[a].subnodes) <= 1
            [] h[a].node_type = "Text" -> LineOfText(h, a)
            [] OTHER -> \A i \in DOMAIN h[a].subnodes : LineOfText(h, h[a].subnodes[i])

\* C14: non-heading content rendered at depth d carries the indentation of
\* 2*d spaces once, at the start of its line; the Text children of a
\* Paragraph follow one another on that line with nothing between them.
C14_ContentIndentedOncePerLine ==
    (output.written /\ ContentTree(heap, ret.nodes)) =>
        output.buf = Canonical(ret.nodes, 0, heap)

\* ------------------------------------------------------------------ C15
IsBreak(e) == e.k \in {"SoftBreak", "HardBreak"}

RECURSIVE IsBreakStream(_)
\* evs holds only literal text, soft and hard breaks and well-formed inline
\* constructs, all at top level
IsBreakStream(evs) ==
    \/ evs = <<>>
    \/ (Head(evs).k = "Text" \/ IsBreak(Head(evs))) /\ IsBreakStream(Tail(evs))
    \/ /\ OpensWithInline(evs)
       /\ IsBreakStream(SubSeq(evs, TitleEnd(evs) + 1, Len(evs)))

\* C15: soft-break and hard-break events are recognised input.  A stream of
\* literal text, well-formed inline constructs and top-level break events is
\* parsed to the end without failure.
C15_BreakEventsAreParsed ==
    (/\ Ended
     /\ IsBreakStream(Input)
     /\ \E i \in DOMAIN Input : IsBreak(Input[i])) =>
        ret.out = Ok

\* ------------------------------------------------------------------ C17
\* C17: to_markdown decorates a span by its variant, whatever the string:
\* the Text node of Plain(x) renders as x, Italic(x) as _x_, Bold(x) as
\* **x**, Strikethrough(x) as ~~x~~, SoftBreak as a newline, HardBreak as a
\* backslash and a newline.
C17_SpansDecoratedByVariant ==
    (output.written /\ Len(heap) = 1 /\ heap[1].node_type = "Text") =>
        output.buf = DecoratedForm(heap[1].txt)

\* C17 witness: a Bold span over a string that holds a separator character
\* has been rendered
C17_Witness ==
    /\ output.written
    /\ Len(heap) = 1
    /\ heap[1].txt.v = "Bold"
    /\ heap[1].txt.s = <<"*", "a">>
    /\ output.buf = <<"*", "*", "*", "a", "*", "*">>

\* ------------------------------------------------------------------ C16
\* evs opens with a well-formed Paragraph or Heading: its Start, literal
\* text and inline constructs, its End
OpensWithBlock(evs) ==
    /\ evs # <<>>
    /\ IsBlockMarker(evs[1], "Start")
    /\ FirstIndex(evs, EvEnd(evs[1].tag, evs[1].lvl)) # 0
    /\ IsInlineStream(SubSeq(evs, 2, FirstIndex(evs, EvEnd(evs[1].tag, evs[1].lvl)) - 1))

RECURSIVE IsSupportedStream(_)
\* evs uses only supported constructs, well-formed: literal text, inline
\* constructs, Paragraphs and Headings
IsSupportedStream(evs) ==
    \/ evs = <<>>
    \/ Head(evs).k = "Text" /\ IsSupportedStream(Tail(evs))
    \/ /\ OpensWithInline(evs)
       /\ IsSupportedStream(SubSeq(evs, TitleEnd(evs) + 1, Len(evs)))
    \/ /\ OpensWithBlock(evs)
       /\ IsSupportedStream(SubSeq(evs,
                                    FirstIndex(evs, EvEnd(evs[1].tag, evs[1].lvl)) + 1,
                                    Len(evs)))

\* the stream the first parse was given
Original == IF source.some THEN source.evs ELSE Input

RECURSIVE HeadingLevels(_, _)
\* the levels of the Heading nodes met along a traversal
HeadingLevels(order, h) ==
    IF order = <<>> THEN <<>>
    ELSE (IF h[Head(order)].node_type = "Heading" THEN <<h[Head(order)].level>>
          ELSE <<>>)
             \o HeadingLevels(Tail(order), h)

\* C16: for an input of supported constructs only, the parse succeeds, the
\* parse of its rendering succeeds, and the forest of that second parse has
\* the heading levels of the input, in order, and the literal text of the
\* input, in order.
C16_RenderReparseKeepsStructure ==
    IsSupportedStream(Original) =>
        /\ Ended => ret.out = Ok
        /\ (source.some /\ ret.out = Ok) =>
              /\ HeadingLevels(Preorder(ret.nodes, heap), heap) = StartLevels(Original)
              /\ NodeTexts(Preorder(ret.nodes, heap), heap) = join(texts_of(Original))

\* ------------------------------------------------------------------ C18
\* the open stack holds Heading nodes only, levels strictly increasing from
\* the bottom to the top, each entry below the entry under it in the tree
ShallowestFirst(stack, h) ==
    \A i \in DOMAIN stack :
        /\ h[stack[i]].node_type = "Heading"
        /\ i > 1 =>
              /\ h[stack[i - 1]].level < h[stack[i]].level
              /\ stack[i] \in Descendants(h, stack[i - 1])

\* C18: in every state of the assembler the open stack holds only Heading
\* nodes, their levels strictly increase from the bottom of the stack to the
\* top, and each entry is a descendant of the entry below it.
C18_OpenStackShallowestFirst == ShallowestFirst(open_headings, heap)

\* C18 witness: push_node closed a heading and opened the one it was given
\* on top of a heading that stayed open
C18_Witness ==
    /\ ret.out = Running
    /\ produced # <<>>
    /\ Len(open_headings) >= 2
    /\ Last(open_headings) = Last(produced)
    /\ \E a \in HeadingAddrs(heap) : a \notin Range(open_headings)

\* ------------------------------------------------------------------ C19
\* the addresses of the forest: the roots and everything below them
InForest(roots, h) == UNION {Subtree(h, r) : r \in Range(roots)}

\* a push_node call made while every open heading is a node of the forest
\* and one of them stays open to receive the node
C19_Step ==
    (/\ ret.out = Running
     /\ heap' # heap
     /\ Range(open_headings) \subseteq InForest(nodes, heap)
     /\ AfterPop # <<>>) =>
        /\ ret'.out = Running
        /\ Len(heap) + 1 \in InForest(nodes', heap')
        /\ Range(open_headings') \subseteq InForest(nodes', heap')

Closed(stack, h) == HeadingAddrs(h) \ Range(stack)

\* a push_node call: closed headings stay closed and untouched, the headings
\* this call closes are untouched, a non-heading leaves the stack as it was
C20_Step ==
    (ret.out = Running /\ heap' # heap) =>
        /\ \A a \in Closed(open_headings, heap) :
              /\ heap'[a] = heap[a]
              /\ a \notin Range(open_headings')
        /\ \A a \in Range(open_headings) :
              (PushedNode.node_type = "Heading" /\ heap[a].level >= PushedNode.level) =>
                  /\ heap'[a] = heap[a]
                  /\ a \notin Range(open_headings')
        /\ (PushedNode.node_type # "Heading" /\ ret'.out = Running) =>
              open_headings' = open_headings

\* C20: once a heading has been popped from the open stack by a heading of
\* level less than or equal to its own, no later event changes its child
\* list or reopens it, and a non-heading node pops no heading.
C20_ClosedHeadingStaysClosed == [][C20_Step]_vars

\* C20 witness: a heading was closed by the heading pushed one call ago, and
\* the node of the last call was attached after that
C20_Witness ==
    /\ ret.out = Running
    /\ Len(produced) >= 2
    /\ heap[produced[Len(produced) - 1]].node_type = "Heading"
    /\ \E a \in Closed(open_headings, heap) :
          /\ a < produced[Len(produced) - 1]
          /\ heap[a].level >= heap[produced[Len(produced) - 1]].level

====
